---- MODULE Spec2Model ----
(***************************************************************************)
(* Model of sync-redis.py: one synchronizer process copying the OpenSlides *)
(* element cache from the production redis to the read-only redis.         *)
(*                                                                         *)
(* A redis hash is a function field -> value, a sorted set a function      *)
(* member -> score.  Everything that comes off the wire is bytes; the only *)
(* str objects the script looks things up with are the schema field names  *)
(* in check_full_update, so bytes field names of the schema hash are       *)
(* written "b'db'" and the str literals "db".                              *)
(***************************************************************************)
EXTENDS Integers, Sequences, FiniteSets, TLC

\* ---------------------------------------------------------------- bounds
\* Number of mutations the production side performs in one behaviour.
MaxMutations == 2

\* ------------------------------------------------------- python values
\* "-inf": change_id_ro when the read-only redis has no change id.
NegInf == -1
\* None for an optional score (zscore of a missing member).
None == -2
\* None for an optional bytes value (GET/HGET of a missing key, dict.get miss).
NoneBytes == "None"

\* ------------------------------------------------------------ key space
Elements == {"e1", "e2"}
Values == {"", "a", "b"}
lowest_change_id_member == "_config:lowest_change_id"
\* bytewise order of the members ('_' = 0x5f sorts before 'e' = 0x65)
MemberOrder == <<"_config:lowest_change_id", "e1", "e2">>
SchemaFields == {"b'db'", "b'config'", "b'migration'"}
SchemaVersions == {"1", "2"}
FieldOrder == <<"b'config'", "b'db'", "b'migration'", "e1", "e2">>

EmptyMap == [x \in {} |-> x]

Rank(order, m) == CHOOSE i \in 1..Len(order) : order[i] = m

\* ------------------------------------------------------ wire encodings
\* redis prints an integral score as its decimal digits.
Digits == <<"0", "1", "2", "3", "4", "5", "6", "7", "8", "9">>
Itoa(n) == Digits[n + 1]
\* int(score.decode())
Atoi(s) == (CHOOSE i \in 1..Len(Digits) : Digits[i] = s) - 1

\* ------------------------------------------------------ redis commands
Put(h, k, v) == [x \in (DOMAIN h) \cup {k} |-> IF x = k THEN v ELSE h[x]]

\* HGET / dict.get: the value, or None when the field is missing.
Get(h, k) == IF k \in DOMAIN h THEN h[k] ELSE NoneBytes

\* ZSCORE: the score, or None when the member is missing.
ZScore(z, m) == IF m \in DOMAIN z THEN z[m] ELSE None

\* Members of S in the order ZRANGEBYSCORE returns them: by score, then bytewise.
RECURSIVE ZOrder(_, _)
ZOrder(z, S) ==
    IF S = {} THEN <<>>
    ELSE LET m == CHOOSE a \in S : \A b \in S :
                      \/ z[a] < z[b]
                      \/ z[a] = z[b] /\ Rank(MemberOrder, a) <= Rank(MemberOrder, b)
         IN <<m, Itoa(z[m])>> \o ZOrder(z, S \ {m})

\* redis.call('zrangebyscore', key, min, '+inf', 'WITHSCORES'): member, score, ...
\* "-inf" (NegInf) is below every score.
ZRangeByScore(z, min) == ZOrder(z, {m \in DOMAIN z : z[m] >= min})

\* ZREVRANGEBYSCORE key +inf -inf WITHSCORES LIMIT 0 1, scores converted by the
\* client: the list of (member, score) pairs holding the highest entry, if any.
ZRevRangeByScoreFirst(z) ==
    IF DOMAIN z = {} THEN <<>>
    ELSE LET m == CHOOSE a \in DOMAIN z : \A b \in DOMAIN z :
                      \/ z[a] > z[b]
                      \/ z[a] = z[b] /\ Rank(MemberOrder, a) >= Rank(MemberOrder, b)
         IN <<(<<m, z[m]>>)>>

\* redis.call('hgetall', key): field, value, field, value, ...
RECURSIVE HOrder(_, _)
HOrder(h, S) ==
    IF S = {} THEN <<>>
    ELSE LET f == CHOOSE a \in S : \A b \in S : Rank(FieldOrder, a) <= Rank(FieldOrder, b)
         IN <<f, h[f]>> \o HOrder(h, S \ {f})

HGetAll(h) == HOrder(h, DOMAIN h)

\* HMSET key field value [field value ...]
RECURSIVE HMSet(_, _)
HMSet(h, pairs) ==
    IF Len(pairs) < 2 THEN h
    ELSE HMSet(Put(h, pairs[1], pairs[2]), SubSeq(pairs, 3, Len(pairs)))

\* Faulty variant: a missing field is an error and nothing is removed.
HDel_Strict(h, fields) ==
    IF \A i \in 1..Len(fields) : fields[i] \in DOMAIN h
    THEN [x \in (DOMAIN h) \ {fields[i] : i \in 1..Len(fields)} |-> h[x]]
    ELSE h

\* HDEL key field [field ...]: a missing field is ignored.
HDel(h, fields) ==
    [x \in (DOMAIN h) \ {fields[i] : i \in 1..Len(fields)} |-> h[x]]

\* ZADD key score member [score member ...]: an existing member is rescored.
RECURSIVE ZAdd(_, _)
ZAdd(z, pairs) ==
    IF Len(pairs) < 2 THEN z
    ELSE ZAdd(Put(z, pairs[2], pairs[1]), SubSeq(pairs, 3, Len(pairs)))

\* ------------------------------------------------------------ variables
VARIABLES
    prod,        \* production redis: full_data, change_id, schema, marker, scripts
    ro,          \* read-only redis: full_data, change_id, schema
    conn,        \* main's production_redis and ro_redis: "None", "open", "closed"
    self,        \* the Synchronizer's attributes
    fetched,     \* what the atomic script returned (after convert_change_id_list)
    pc,          \* where the process is
    outcome,     \* how sync_redis ended: "none", "Done", "Aborted", "Failed"
    mutations,   \* production mutations so far
    hist         \* history: what this run has done and seen

vars == <<prod, ro, conn, self, fetched, pc, outcome, mutations, hist>>

Terminal == {"Done", "Aborted", "Failed"}

NoSelf ==
    [change_id_ro |-> NegInf, lowest_change_id_ro |-> None, schema_ro |-> EmptyMap,
     lowest_change_id_prod |-> None, schema_production |-> EmptyMap]

NoFetched == [full_data |-> <<>>, change_id |-> <<>>, schema |-> <<>>]

EmptyStore == [full_data |-> EmptyMap, change_id |-> EmptyMap, schema |-> EmptyMap]

Data(store) ==
    [full_data |-> store.full_data, change_id |-> store.change_id, schema |-> store.schema]

NoHist ==
    [decision |-> "none",      \* branch taken at step 3/4
     at_fetch |-> EmptyStore,  \* production data at the instant of the atomic script
     fetch_done |-> FALSE,
     marker_read |-> "unread", \* what GET of the production marker returned
     ro_before |-> EmptyStore, \* read-only data when the run started
     writes |-> 0,             \* transactions executed on the read-only redis
     mutated |-> FALSE,        \* production changed since the run started
     \* the previous run was a partial update that ended Done, and production
     \* has not changed since that run started
     prev_partial_quiet |-> FALSE]

Init ==
    /\ prod = [full_data |-> [e \in {"e1"} |-> "a"],
               change_id |-> [m \in {lowest_change_id_member, "e1"} |-> 1],
               schema |-> [f \in SchemaFields |-> "1"],
               marker |-> "1",
               scripts |-> {}]
    /\ ro = EmptyStore
    /\ conn = [production_redis |-> "None", ro_redis |-> "None"]
    /\ self = NoSelf
    /\ fetched = NoFetched
    /\ pc = "Idle"
    /\ outcome = "none"
    /\ mutations = 0
    /\ hist = NoHist

\* ---------------------------------------------------- production side
\* The production worker is not part of this repository; it is modelled from
\* the data model: every element mutation stamps the element with a change id
\* above all earlier ones, the lowest change id only grows, and entries below
\* it are dropped from the change id set.

\* Highest score in a change id set; "-inf" when the set is empty.
Cursor(z) ==
    IF DOMAIN z = {} THEN NegInf
    ELSE CHOOSE c \in {z[m] : m \in DOMAIN z} : \A m \in DOMAIN z : z[m] <= c

NextChangeId == IF Cursor(prod.change_id) = NegInf THEN 1 ELSE Cursor(prod.change_id) + 1

Mutate(p) ==
    /\ mutations < MaxMutations
    /\ p # prod
    /\ prod' = p
    /\ mutations' = mutations + 1
    /\ hist' = [hist EXCEPT !.mutated = TRUE]
    /\ UNCHANGED <<ro, conn, self, fetched, pc, outcome>>

ProdChange ==
    \E e \in Elements, v \in Values :
        Mutate([prod EXCEPT !.full_data = Put(@, e, v),
                            !.change_id = Put(@, e, NextChangeId)])

ProdDelete ==
    \E e \in DOMAIN prod.full_data :
        Mutate([prod EXCEPT !.full_data = [x \in (DOMAIN @) \ {e} |-> @[x]],
                            !.change_id = Put(@, e, NextChangeId)])

ProdRaiseLowest ==
    LET old == ZScore(prod.change_id, lowest_change_id_member)
        lo == IF old = None THEN 1 ELSE old + 1
        hi == IF Cursor(prod.change_id) = NegInf THEN 1 ELSE Cursor(prod.change_id)
    IN \E f \in lo..hi :
        Mutate([prod EXCEPT !.change_id =
            Put([m \in {x \in DOMAIN @ : @[x] >= f} |-> @[m]], lowest_change_id_member, f)])

ProdSetSchema ==
    \E f \in SchemaFields, v \in SchemaVersions \cup {NoneBytes} :
        Mutate([prod EXCEPT !.schema =
            IF v = NoneBytes THEN [x \in (DOMAIN @) \ {f} |-> @[x]] ELSE Put(@, f, v)])

ProdSetMarker ==
    \E m \in {NoneBytes, "", "1"} : Mutate([prod EXCEPT !.marker = m])

\* The production redis restarts without its data: keys and script cache are gone.
ProdRestart ==
    Mutate([full_data |-> EmptyMap, change_id |-> EmptyMap, schema |-> EmptyMap,
            marker |-> NoneBytes, scripts |-> {}])

\* ------------------------------------------------------- Synchronizer
\* Faulty variant: a test for None instead of truthiness.
Truthy_NotNone(v) == v # NoneBytes

\* bool(value) of a GET reply
Truthy(v) == v # NoneBytes /\ v # ""

\* fetch_ro_redis_data: the three reads of the read-only redis.  Only this
\* process writes the read-only redis, so the reads see one state.
fetch_ro_redis_data(store) ==
    LET change_id_ro == ZRevRangeByScoreFirst(store.change_id)
    IN [change_id_ro |->
            IF Len(change_id_ro) = 0 THEN NegInf ELSE change_id_ro[1][2],
        lowest_change_id_ro |->
            IF Len(change_id_ro) = 0 THEN None
            ELSE ZScore(store.change_id, lowest_change_id_member),
        schema_ro |-> store.schema]

\* Faulty variant: only the schemas are looked at.
check_full_update_SchemaOnly(s) ==
    IF \/ Get(s.schema_ro, "db") # Get(s.schema_production, "db")
       \/ Get(s.schema_ro, "config") # Get(s.schema_production, "config")
       \/ Get(s.schema_ro, "migration") # Get(s.schema_production, "migration")
    THEN TRUE
    ELSE FALSE

\* Faulty variant: the two lowest change ids are not compared.
check_full_update_NoCompare(s) ==
    IF s.lowest_change_id_ro = None THEN TRUE
    ELSE IF s.lowest_change_id_prod = None THEN TRUE
    ELSE IF \/ Get(s.schema_ro, "db") # Get(s.schema_production, "db")
            \/ Get(s.schema_ro, "config") # Get(s.schema_production, "config")
            \/ Get(s.schema_ro, "migration") # Get(s.schema_production, "migration")
         THEN TRUE
    ELSE FALSE

\* check_full_update: TRUE for a full update.  The schema dicts are keyed by
\* bytes and looked up with the str literals.
check_full_update(s) ==
    IF s.lowest_change_id_ro = None THEN TRUE
    ELSE IF s.lowest_change_id_prod = None THEN TRUE
    ELSE IF s.lowest_change_id_ro # s.lowest_change_id_prod THEN TRUE
    ELSE IF \/ Get(s.schema_ro, "db") # Get(s.schema_production, "db")
            \/ Get(s.schema_ro, "config") # Get(s.schema_production, "config")
            \/ Get(s.schema_ro, "migration") # Get(s.schema_production, "migration")
         THEN TRUE
    ELSE FALSE

\* Faulty variant: the score is taken one too high.
convert_change_id_list_Next(change_id) ==
    [i \in 1..Len(change_id) |->
        IF i % 2 = 1 THEN Atoi(change_id[i + 1]) + 1 ELSE change_id[i - 1]]

\* convert_change_id_list: (member, score) pairs to (int(score), member) pairs.
convert_change_id_list(change_id) ==
    [i \in 1..Len(change_id) |->
        IF i % 2 = 1 THEN Atoi(change_id[i + 1]) ELSE change_id[i - 1]]

\* The lua script of do_full_update.
FullScript(p) ==
    [full_data |-> HGetAll(p.full_data),
     change_id |-> ZRangeByScore(p.change_id, NegInf),
     schema |-> HGetAll(p.schema)]

\* The lua script of do_partial_update; a missing element comes back as nil.
RECURSIVE PartialFullData(_, _)
PartialFullData(full_data, change_id) ==
    IF Len(change_id) < 2 THEN <<>>
    ELSE <<change_id[1], Get(full_data, change_id[1])>>
         \o PartialFullData(full_data, SubSeq(change_id, 3, Len(change_id)))

PartialScript(p, min) ==
    LET change_id == ZRangeByScore(p.change_id, min)
    IN [full_data |-> PartialFullData(p.full_data, change_id),
        change_id |-> change_id,
        schema |-> <<>>]

\* Faulty variant: the script is asked from the cursor itself.
PartialArg_Inclusive(change_id_ro) == change_id_ro

\* ARGV[1] of the partial script
PartialArg(change_id_ro) ==
    IF change_id_ro # NegInf THEN change_id_ro + 1 ELSE change_id_ro

\* split partial_full_data into changed and deleted
RECURSIVE changed_elements(_)
changed_elements(partial_full_data) ==
    IF Len(partial_full_data) < 2 THEN <<>>
    ELSE (IF Truthy(partial_full_data[2])
          THEN <<partial_full_data[1], partial_full_data[2]>> ELSE <<>>)
         \o changed_elements(SubSeq(partial_full_data, 3, Len(partial_full_data)))

RECURSIVE deleted_elements(_)
deleted_elements(partial_full_data) ==
    IF Len(partial_full_data) < 2 THEN <<>>
    ELSE (IF Truthy(partial_full_data[2]) THEN <<>> ELSE <<partial_full_data[1]>>)
         \o deleted_elements(SubSeq(partial_full_data, 3, Len(partial_full_data)))

\* Faulty variant: the three keys are not deleted first.
FullTransaction_NoReset(store, f) ==
    [full_data |-> IF f.full_data # <<>> THEN HMSet(store.full_data, f.full_data)
                   ELSE store.full_data,
     change_id |-> IF f.change_id # <<>> THEN ZAdd(store.change_id, f.change_id)
                   ELSE store.change_id,
     schema |-> IF f.schema # <<>> THEN HMSet(store.schema, f.schema) ELSE store.schema]

\* The MULTI/EXEC transaction of do_full_update, applied to the read-only redis.
FullTransaction(store, f) ==
    [full_data |-> IF f.full_data # <<>> THEN HMSet(EmptyMap, f.full_data) ELSE EmptyMap,
     change_id |-> IF f.change_id # <<>> THEN ZAdd(EmptyMap, f.change_id) ELSE EmptyMap,
     schema |-> IF f.schema # <<>> THEN HMSet(EmptyMap, f.schema) ELSE EmptyMap]

\* Faulty variant: the change id set is replaced by the fetched entries.
PartialTransaction_ReplaceChangeIds(store, f) ==
    LET changed == changed_elements(f.full_data)
        deleted == deleted_elements(f.full_data)
        upserted == IF changed # <<>> THEN HMSet(store.full_data, changed)
                    ELSE store.full_data
    IN [full_data |-> IF deleted # <<>> THEN HDel(upserted, deleted) ELSE upserted,
        change_id |-> IF f.change_id # <<>> THEN ZAdd(EmptyMap, f.change_id)
                      ELSE store.change_id,
        schema |-> store.schema]

\* Faulty variant: the batch stops before the deletions.
PartialTransaction_NoDelete(store, f) ==
    LET changed == changed_elements(f.full_data)
    IN [full_data |-> IF changed # <<>> THEN HMSet(store.full_data, changed)
                      ELSE store.full_data,
        change_id |-> IF f.change_id # <<>> THEN ZAdd(store.change_id, f.change_id)
                      ELSE store.change_id,
        schema |-> store.schema]

\* The MULTI/EXEC transaction of do_partial_update.
PartialTransaction(store, f) ==
    LET changed == changed_elements(f.full_data)
        deleted == deleted_elements(f.full_data)
        upserted == IF changed # <<>> THEN HMSet(store.full_data, changed)
                    ELSE store.full_data
    IN [full_data |-> IF deleted # <<>> THEN HDel(upserted, deleted) ELSE upserted,
        change_id |-> IF f.change_id # <<>> THEN ZAdd(store.change_id, f.change_id)
                      ELSE store.change_id,
        schema |-> store.schema]

\* ------------------------------------------------------------ the run
\* An exception out of an awaited store call: main's except clause logs it and
\* the finally clause runs.
Awaiting ==
    {"create_ro", "verify_marker", "fetch_ro", "zscore_prod", "hgetall_prod",
     "full_evalsha", "full_eval", "full_execute",
     "partial_evalsha", "partial_eval", "partial_execute", "report"}

\* Faulty variant: the exception is swallowed and the run counts as done.
Raise_Swallow ==
    /\ pc \in Awaiting
    /\ pc' = "finally"
    /\ outcome' = "Done"
    /\ UNCHANGED <<prod, ro, conn, self, fetched, mutations, hist>>

Raise ==
    /\ pc \in Awaiting
    /\ pc' = "finally"
    /\ outcome' = "Failed"
    /\ UNCHANGED <<prod, ro, conn, self, fetched, mutations, hist>>

\* main, up to the first create_redis: a new process, a new Synchronizer.
main ==
    /\ pc \in {"Idle"} \cup Terminal
    /\ self' = NoSelf
    /\ fetched' = NoFetched
    /\ hist' = [NoHist EXCEPT !.ro_before = Data(ro),
                              !.prev_partial_quiet =
                                  /\ hist.decision = "IncrementalSync"
                                  /\ pc = "Done"
                                  /\ ~hist.mutated]
    /\ \/ /\ conn' = [production_redis |-> "open", ro_redis |-> "None"]
          /\ pc' = "create_ro"
          /\ outcome' = "none"
       \/ /\ conn' = [production_redis |-> "None", ro_redis |-> "None"]
          /\ pc' = "finally"
          /\ outcome' = "Failed"
    /\ UNCHANGED <<prod, ro, mutations>>

main_create_ro ==
    /\ pc = "create_ro"
    /\ conn' = [conn EXCEPT !.ro_redis = "open"]
    /\ pc' = "verify_marker"
    /\ UNCHANGED <<prod, ro, self, fetched, outcome, mutations, hist>>

\* Faulty variant: only the production connection is closed.
main_finally_ProdOnly ==
    /\ pc = "finally"
    /\ conn' = [conn EXCEPT !.production_redis = IF @ = "open" THEN "closed" ELSE @]
    /\ pc' = outcome
    /\ self' = NoSelf
    /\ fetched' = NoFetched
    /\ UNCHANGED <<prod, ro, outcome, mutations, hist>>

\* finally: close what was opened; the process ends and its memory is gone.
main_finally ==
    /\ pc = "finally"
    /\ conn' = [c \in DOMAIN conn |-> IF conn[c] = "open" THEN "closed" ELSE conn[c]]
    /\ pc' = outcome
    /\ self' = NoSelf
    /\ fetched' = NoFetched
    /\ UNCHANGED <<prod, ro, outcome, mutations, hist>>

\* sync_redis step 0
sync_redis_marker ==
    /\ pc = "verify_marker"
    /\ IF ~Truthy(prod.marker)
       THEN pc' = "finally" /\ outcome' = "Aborted"
       ELSE pc' = "fetch_ro" /\ outcome' = outcome
    /\ hist' = [hist EXCEPT !.marker_read = prod.marker]
    /\ UNCHANGED <<prod, ro, conn, self, fetched, mutations>>

\* sync_redis step 1
sync_redis_fetch_ro ==
    /\ pc = "fetch_ro"
    /\ self' = [self EXCEPT
                  !.change_id_ro = fetch_ro_redis_data(ro).change_id_ro,
                  !.lowest_change_id_ro = fetch_ro_redis_data(ro).lowest_change_id_ro,
                  !.schema_ro = fetch_ro_redis_data(ro).schema_ro]
    /\ pc' = "zscore_prod"
    /\ UNCHANGED <<prod, ro, conn, fetched, outcome, mutations, hist>>

\* sync_redis step 2, first read
sync_redis_lowest_prod ==
    /\ pc = "zscore_prod"
    /\ self' = [self EXCEPT
                  !.lowest_change_id_prod = ZScore(prod.change_id, lowest_change_id_member)]
    /\ pc' = "hgetall_prod"
    /\ UNCHANGED <<prod, ro, conn, fetched, outcome, mutations, hist>>

\* sync_redis step 2, second read, and the branch of step 3/4
sync_redis_schema_prod ==
    /\ pc = "hgetall_prod"
    /\ self' = [self EXCEPT !.schema_production = prod.schema]
    /\ IF check_full_update(self')
       THEN pc' = "full_evalsha" /\ hist' = [hist EXCEPT !.decision = "FullSync"]
       ELSE pc' = "partial_evalsha" /\ hist' = [hist EXCEPT !.decision = "IncrementalSync"]
    /\ UNCHANGED <<prod, ro, conn, fetched, outcome, mutations>>

\* What do_full_update holds after the script and convert_change_id_list.
FullFetch(p) == [FullScript(p) EXCEPT !.change_id = convert_change_id_list(@)]

\* What do_partial_update holds after the script and convert_change_id_list.
PartialFetch(p, change_id_ro) ==
    [PartialScript(p, PartialArg(change_id_ro)) EXCEPT
        !.change_id = convert_change_id_list(@)]

Fetched(result) ==
    /\ fetched' = result
    /\ hist' = [hist EXCEPT !.at_fetch = Data(prod), !.fetch_done = TRUE]

\* eval_production_redis, EVALSHA: the script runs, or the reply is NOSCRIPT.
do_full_update_evalsha ==
    /\ pc = "full_evalsha"
    /\ IF "sha1(full)" \in prod.scripts
       THEN Fetched(FullFetch(prod)) /\ pc' = "full_execute"
       ELSE pc' = "full_eval" /\ UNCHANGED <<fetched, hist>>
    /\ UNCHANGED <<prod, ro, conn, self, outcome, mutations>>

\* Faulty variant: the script is run but not kept in the script cache.
do_full_update_eval_NoCache ==
    /\ pc = "full_eval"
    /\ Fetched(FullFetch(prod))
    /\ pc' = "full_execute"
    /\ UNCHANGED <<prod, ro, conn, self, outcome, mutations>>

\* eval_production_redis, EVAL after NOSCRIPT: runs the script and caches it.
do_full_update_eval ==
    /\ pc = "full_eval"
    /\ Fetched(FullFetch(prod))
    /\ prod' = [prod EXCEPT !.scripts = @ \cup {"sha1(full)"}]
    /\ pc' = "full_execute"
    /\ UNCHANGED <<ro, conn, self, outcome, mutations>>

\* Faulty variant: the transaction is sent over the production connection.
do_full_update_execute_OnProd ==
    /\ pc = "full_execute"
    /\ prod' = [prod EXCEPT !.full_data = FullTransaction(prod, fetched).full_data,
                            !.change_id = FullTransaction(prod, fetched).change_id,
                            !.schema = FullTransaction(prod, fetched).schema]
    /\ hist' = [hist EXCEPT !.writes = @ + 1]
    /\ \/ pc' = "report" /\ outcome' = outcome
       \/ pc' = "finally" /\ outcome' = "Failed"
    /\ UNCHANGED <<ro, conn, self, fetched, mutations>>

\* transaction.execute() of do_full_update; the reply may be lost after EXEC.
do_full_update_execute ==
    /\ pc = "full_execute"
    /\ ro' = FullTransaction(ro, fetched)
    /\ hist' = [hist EXCEPT !.writes = @ + 1]
    /\ \/ pc' = "report" /\ outcome' = outcome
       \/ pc' = "finally" /\ outcome' = "Failed"
    /\ UNCHANGED <<prod, conn, self, fetched, mutations>>

\* Faulty variant: the transaction is skipped whatever was fetched.
AfterPartialFetch_Skip == pc' = "report"

\* After the partial script: the transaction is built, or there is nothing to do.
AfterPartialFetch ==
    IF fetched'.full_data # <<>> \/ fetched'.change_id # <<>>
    THEN pc' = "partial_execute"
    ELSE pc' = "report"

do_partial_update_evalsha ==
    /\ pc = "partial_evalsha"
    /\ IF "sha1(partial)" \in prod.scripts
       THEN Fetched(PartialFetch(prod, self.change_id_ro)) /\ AfterPartialFetch
       ELSE pc' = "partial_eval" /\ UNCHANGED <<fetched, hist>>
    /\ UNCHANGED <<prod, ro, conn, self, outcome, mutations>>

do_partial_update_eval ==
    /\ pc = "partial_eval"
    /\ Fetched(PartialFetch(prod, self.change_id_ro))
    /\ AfterPartialFetch
    /\ prod' = [prod EXCEPT !.scripts = @ \cup {"sha1(partial)"}]
    /\ UNCHANGED <<ro, conn, self, outcome, mutations>>

do_partial_update_execute ==
    /\ pc = "partial_execute"
    /\ ro' = PartialTransaction(ro, fetched)
    /\ hist' = [hist EXCEPT !.writes = @ + 1]
    /\ \/ pc' = "report" /\ outcome' = outcome
       \/ pc' = "finally" /\ outcome' = "Failed"
    /\ UNCHANGED <<prod, conn, self, fetched, mutations>>

\* fetch_ro_redis_data again, for the log; sync_redis returns.
sync_redis_report ==
    /\ pc = "report"
    /\ self' = [self EXCEPT
                  !.change_id_ro = fetch_ro_redis_data(ro).change_id_ro,
                  !.lowest_change_id_ro = fetch_ro_redis_data(ro).lowest_change_id_ro,
                  !.schema_ro = fetch_ro_redis_data(ro).schema_ro]
    /\ pc' = "finally"
    /\ outcome' = "Done"
    /\ UNCHANGED <<prod, ro, conn, fetched, mutations, hist>>

NextMonotone ==
    \/ main
    \/ main_create_ro
    \/ main_finally
    \/ Raise
    \/ sync_redis_marker
    \/ sync_redis_fetch_ro
    \/ sync_redis_lowest_prod
    \/ sync_redis_schema_prod
    \/ do_full_update_evalsha
    \/ do_full_update_eval
    \/ do_full_update_execute
    \/ do_partial_update_evalsha
    \/ do_partial_update_eval
    \/ do_partial_update_execute
    \/ sync_redis_report
    \/ ProdChange
    \/ ProdDelete
    \/ ProdRaiseLowest
    \/ ProdSetSchema
    \/ ProdSetMarker

Next ==
    \/ NextMonotone
    \/ ProdRestart

Spec == Init /\ [][Next]_vars

\* The same with a production redis that is never restarted: its change ids
\* never decrease.
SpecMonotone == Init /\ [][NextMonotone]_vars

\* ============================================================== claims

RunDone == pc = "Done"

\* Where the branch of step 3/4 is taken and self still holds what step 1 and
\* step 2 read.
Decided ==
    pc \in {"full_evalsha", "full_eval", "full_execute",
            "partial_evalsha", "partial_eval", "partial_execute", "report"}

\* Entries the partial script of this run selected: those above the cursor the
\* read-only redis had when the run started.
Delta ==
    {m \in DOMAIN hist.at_fetch.change_id :
        hist.at_fetch.change_id[m] > Cursor(hist.ro_before.change_id)}

\* The read-only redis after a partial update, from the data production held
\* at the fetch: non-empty values written, the other selected elements removed,
\* the selected change ids merged, the schema untouched.
PartialPost ==
    LET before == hist.ro_before
        src == hist.at_fetch
        upserts == {m \in Delta : m \in DOMAIN src.full_data /\ src.full_data[m] # ""}
        removed == Delta \ upserts
    IN [full_data |->
            [e \in ((DOMAIN before.full_data) \ removed) \cup upserts |->
                IF e \in upserts THEN src.full_data[e] ELSE before.full_data[e]],
        change_id |->
            [m \in (DOMAIN before.change_id) \cup Delta |->
                IF m \in Delta THEN src.change_id[m] ELSE before.change_id[m]],
        schema |-> before.schema]

PostApply == IF hist.decision = "FullSync" THEN hist.at_fetch ELSE PartialPost

\* C1: after every run that ends in Done the schema of the read-only redis is
\* the schema production had at the instant of the run's atomic fetch.
C1_SchemaOfFetch == RunDone => ro.schema = hist.at_fetch.schema

\* C2: a run that starts on an empty read-only redis takes the full update,
\* and after every full update that ends in Done the full data, the change ids
\* (with _config:lowest_change_id) and the schema of the read-only redis are
\* those production held at the instant of the snapshot.
C2_FullSyncCopies ==
    /\ (hist.decision # "none" /\ hist.ro_before = EmptyStore) =>
          hist.decision = "FullSync"
    /\ (RunDone /\ hist.decision = "FullSync") =>
          /\ ro.full_data = hist.at_fetch.full_data
          /\ ro.change_id = hist.at_fetch.change_id
          /\ ro.schema = hist.at_fetch.schema

C2_Witness ==
    /\ RunDone
    /\ hist.decision = "FullSync"
    /\ hist.marker_read = "1"
    /\ hist.ro_before = EmptyStore
    /\ hist.at_fetch.full_data # EmptyMap
    /\ lowest_change_id_member \in DOMAIN ro.change_id

\* C3: equal, defined lowest change ids and equal schemas with the read-only
\* cursor behind mean a partial update, and a partial update that ends in Done
\* leaves every element stamped above the prior cursor with the value
\* production held at the fetch, and absent when production held none.
C3_PartialCatchesUp ==
    /\ ( /\ Decided
         /\ self.lowest_change_id_ro # None
         /\ self.lowest_change_id_ro = self.lowest_change_id_prod
         /\ self.schema_ro = self.schema_production ) =>
          hist.decision = "IncrementalSync"
    /\ (RunDone /\ hist.decision = "IncrementalSync") =>
          \A m \in Delta :
             Get(ro.full_data, m) = Get(hist.at_fetch.full_data, m)

\* C4: with equal, defined lowest change ids, a schema field that differs
\* between the two redis (missing on one side counts) means a full update.
C4_SchemaForcesFull ==
    ( /\ Decided
      /\ self.lowest_change_id_ro # None
      /\ self.lowest_change_id_ro = self.lowest_change_id_prod
      /\ \E f \in SchemaFields :
            Get(self.schema_ro, f) # Get(self.schema_production, f) ) =>
       hist.decision = "FullSync"

\* C5: the full update is taken whenever the lowest change id of the read-only
\* redis is missing (an empty change id set included), production's is
\* missing, or the two differ; the partial update only when both are there and
\* equal; the branch depends on nothing but what was inspected.
C5_FloorsDecide ==
    Decided =>
       /\ self.lowest_change_id_ro =
             ZScore(hist.ro_before.change_id, lowest_change_id_member)
       /\ hist.ro_before.change_id = EmptyMap => self.lowest_change_id_ro = None
       /\ ( \/ self.lowest_change_id_ro = None
            \/ self.lowest_change_id_prod = None
            \/ self.lowest_change_id_ro # self.lowest_change_id_prod ) =>
             hist.decision = "FullSync"
       /\ hist.decision = "IncrementalSync" =>
             /\ self.lowest_change_id_ro # None
             /\ self.lowest_change_id_prod # None
             /\ self.lowest_change_id_ro = self.lowest_change_id_prod
       /\ hist.decision = IF check_full_update(self) THEN "FullSync" ELSE "IncrementalSync"

C5_Witness ==
    /\ Decided
    /\ hist.decision = "FullSync"
    /\ self.lowest_change_id_ro # None
    /\ self.lowest_change_id_prod # None
    /\ self.lowest_change_id_ro # self.lowest_change_id_prod

\* C6: a run that reads a missing or empty production marker inspects nothing,
\* takes no branch, fetches nothing, writes nothing and ends Aborted, with the
\* read-only redis as it was.
C6_AbortIsNoOp ==
    hist.marker_read \in {NoneBytes, ""} =>
       /\ outcome = "Aborted"
       /\ pc \in {"finally", "Aborted"}
       /\ self = NoSelf
       /\ hist.decision = "none"
       /\ ~hist.fetch_done
       /\ hist.writes = 0
       /\ Data(ro) = hist.ro_before

C6_Witness ==
    /\ pc = "Aborted"
    /\ hist.marker_read = NoneBytes
    /\ hist.ro_before # EmptyStore

\* C7: a partial update that follows a partial update ended Done, with
\* production unchanged since that one started, fetches nothing, executes no
\* transaction and leaves the read-only redis as it was.
C7_SecondPartialIsNoOp ==
    (hist.prev_partial_quiet /\ ~hist.mutated /\ hist.decision = "IncrementalSync") =>
       /\ fetched.full_data = <<>>
       /\ fetched.change_id = <<>>
       /\ pc # "partial_execute"
       /\ hist.writes = 0
       /\ Data(ro) = hist.ro_before

C7_Witness ==
    /\ RunDone
    /\ hist.prev_partial_quiet
    /\ ~hist.mutated
    /\ hist.decision = "IncrementalSync"
    /\ hist.fetch_done

\* C8: at every instant of a run the read-only redis is entirely as it was
\* before the apply step or entirely as the apply step leaves it; once the
\* transaction has executed it is the latter.
C8_ApplyAllOrNothing ==
    /\ ~hist.fetch_done => Data(ro) = hist.ro_before
    /\ hist.fetch_done => Data(ro) \in {hist.ro_before, PostApply}
    /\ hist.writes > 0 => Data(ro) = PostApply

C8_Witness ==
    /\ hist.decision = "IncrementalSync"
    /\ hist.writes = 1
    /\ \E e \in Elements : e \in DOMAIN ro.full_data /\ e \notin DOMAIN hist.ro_before.full_data
    /\ \E e \in Elements : e \notin DOMAIN ro.full_data /\ e \in DOMAIN hist.ro_before.full_data

\* C9: after every run that ends in Done, an entry of the read-only change id
\* set at or above the read-only lowest change id is in the read-only full
\* data exactly when it was in production's full data at the fetch.
C9_PresenceMatches ==
    RunDone =>
       LET lowest == ZScore(ro.change_id, lowest_change_id_member)
       IN \A m \in DOMAIN ro.change_id :
             (lowest # None /\ ro.change_id[m] >= lowest) =>
                (m \in DOMAIN ro.full_data <=> m \in DOMAIN hist.at_fetch.full_data)

\* C10: with a production redis whose change ids never decrease, the highest
\* change id of the read-only redis is never above the highest of production.
C10_CursorNotAhead == Cursor(ro.change_id) <= Cursor(prod.change_id)

C10_Witness ==
    /\ RunDone
    /\ hist.decision = "IncrementalSync"
    /\ hist.writes = 1
    /\ Cursor(ro.change_id) = Cursor(prod.change_id)
    /\ Cursor(ro.change_id) > Cursor(hist.ro_before.change_id)

\* Selected entries without a value in production's full data at the fetch that
\* the read-only full data did not hold when the run started.
NewTombstones ==
    {m \in Delta : /\ m \notin DOMAIN hist.at_fetch.full_data
                   /\ m \notin DOMAIN hist.ro_before.full_data}

\* C11: when a partial update selects an entry that has no value in production
\* and is not in the read-only full data, the transaction still executes as a
\* whole: every selected entry without a value is absent from the read-only
\* full data, every selected non-empty value is written, and every selected
\* change id is merged.
C11_DeleteMissingIsSilent ==
    ( /\ hist.decision = "IncrementalSync"
      /\ hist.writes > 0
      /\ NewTombstones # {} ) =>
       /\ \A m \in Delta :
             /\ m \notin DOMAIN hist.at_fetch.full_data => m \notin DOMAIN ro.full_data
             /\ Get(hist.at_fetch.full_data, m) \notin {NoneBytes, ""} =>
                   Get(ro.full_data, m) = hist.at_fetch.full_data[m]
             /\ ZScore(ro.change_id, m) = hist.at_fetch.change_id[m]
       /\ pc \in {"report", "finally", "Done", "Failed"}

C11_Witness ==
    /\ RunDone
    /\ hist.decision = "IncrementalSync"
    /\ hist.writes = 1
    /\ \E e \in Elements :
          /\ e \in NewTombstones
          /\ e \notin DOMAIN ro.full_data
          /\ e \notin DOMAIN hist.ro_before.change_id
          /\ e \in DOMAIN ro.change_id

\* C12: whenever a run has ended (Done, Aborted or Failed) no connection is
\* open: a connection that was opened is closed, one that was never opened
\* stays None; after Done and Aborted both have been opened and closed.
C12_ConnectionsClosed ==
    pc \in Terminal =>
       /\ \A c \in DOMAIN conn : conn[c] \in {"None", "closed"}
       /\ conn.ro_redis = "closed" => conn.production_redis = "closed"
       /\ pc \in {"Done", "Aborted"} => \A c \in DOMAIN conn : conn[c] = "closed"

C12_Witness ==
    /\ pc = "Failed"
    /\ conn.production_redis = "closed"
    /\ conn.ro_redis = "closed"
    /\ hist.writes = 1

\* The state of the run's state machine a position of the process stands for.
\* The finally clause of main runs when the run has already ended.
Stage(p, o) ==
    CASE p \in {"Idle", "create_ro"} -> "Idle"
      [] p = "verify_marker" -> "VerifyingMarker"
      [] p \in {"fetch_ro", "zscore_prod", "hgetall_prod"} -> "Inspecting"
      [] p \in {"full_evalsha", "full_eval", "full_execute"} -> "FullSyncing"
      [] p \in {"partial_evalsha", "partial_eval", "partial_execute"} -> "IncrementalSyncing"
      [] p = "report" -> "ReportingFinal"
      [] p = "finally" -> o
      [] OTHER -> p

\* Successors of a state within one run; the branch of step 3/4 (Deciding) is
\* taken within the step that leaves Inspecting.
StageSuccessors(s) ==
    CASE s = "Idle" -> {"VerifyingMarker", "Failed"}
      [] s = "VerifyingMarker" -> {"Aborted", "Inspecting", "Failed"}
      [] s = "Inspecting" -> {"FullSyncing", "IncrementalSyncing", "Failed"}
      [] s = "FullSyncing" -> {"ReportingFinal", "Failed"}
      [] s = "IncrementalSyncing" -> {"ReportingFinal", "Failed"}
      [] s = "ReportingFinal" -> {"Done", "Failed"}
      [] OTHER -> {}

\* The first step of a new process on the same two redis.
FreshRun ==
    /\ pc' \in {"create_ro", "finally"}
    /\ hist'.decision = "none"
    /\ ~hist'.fetch_done
    /\ hist'.writes = 0
    /\ self' = NoSelf
    /\ ro' = ro

C13_StageInv ==
    LET s == Stage(pc, outcome)
    IN /\ s \in {"Idle", "VerifyingMarker", "Inspecting", "Aborted"} =>
             hist.decision = "none" /\ ~hist.fetch_done /\ hist.writes = 0
       /\ s = "FullSyncing" => hist.decision = "FullSync"
       /\ s = "IncrementalSyncing" => hist.decision = "IncrementalSync"
       /\ hist.writes <= 1
       /\ hist.writes = 1 => hist.fetch_done
       /\ hist.fetch_done => hist.decision # "none"
       /\ s \in {"ReportingFinal", "Done"} =>
             /\ hist.fetch_done
             /\ \/ hist.writes = 1
                \/ /\ hist.decision = "IncrementalSync"
                   /\ pc = "report" => fetched.full_data = <<>> /\ fetched.change_id = <<>>
                   /\ Data(ro) = hist.ro_before

C13_StageStep ==
    LET s == Stage(pc, outcome)
        t == Stage(pc', outcome')
    IN IF s \in Terminal
       THEN \/ pc \in Terminal /\ FreshRun
            \/ /\ t = s
               /\ pc' \in {pc, outcome}
               /\ UNCHANGED <<ro, outcome>>
               /\ hist'.decision = hist.decision
               /\ hist'.writes = hist.writes
       ELSE /\ t # s => t \in StageSuccessors(s)
            /\ hist.decision # "none" => hist'.decision = hist.decision
            /\ hist'.writes >= hist.writes

\* C13: a run moves Idle, VerifyingMarker, then Aborted or Inspecting, then
\* (the branch taken) exactly one of FullSyncing and IncrementalSyncing,
\* ReportingFinal, Done, or to Failed from any of the non-terminal states; the
\* branch once taken never changes, neither update starts before the branch
\* is taken, the final fetch of the read-only values comes only after the
\* transaction has executed or the partial update found nothing to do, and
\* after Done, Aborted or Failed the run does nothing more.
C13_RunOrder == [](C13_StageInv) /\ [][C13_StageStep]_vars

C13_Witness ==
    /\ pc = "report"
    /\ hist.decision = "IncrementalSync"
    /\ hist.writes = 1
    /\ conn.ro_redis = "open"
    /\ Data(ro) # hist.ro_before

\* C14: the lowest change id and the schema of production on which the branch
\* of step 3/4 was taken are those production held at the instant of the
\* atomic script, so a partial update never applies entries fetched from a
\* production whose lowest change id differs from the read-only one.
C14_InspectedAtFetch ==
    (Decided /\ hist.fetch_done) =>
       /\ self.lowest_change_id_prod =
             ZScore(hist.at_fetch.change_id, lowest_change_id_member)
       /\ self.schema_production = hist.at_fetch.schema
       /\ (hist.decision = "IncrementalSync" /\ pc # "report") =>
             self.lowest_change_id_ro =
                ZScore(hist.at_fetch.change_id, lowest_change_id_member)

\* The step is a reply to the process, not an exception and not a production
\* mutation.
Replied == pc' # pc /\ pc' # "finally"

C15_ResultInv ==
    /\ pc = "full_execute" => fetched = FullFetch(hist.at_fetch)
    /\ (pc \in {"partial_execute", "report"} /\ hist.decision = "IncrementalSync") =>
          fetched = PartialFetch(hist.at_fetch, self.change_id_ro)
    /\ pc \in {"full_eval", "partial_eval"} => ~hist.fetch_done

C15_EvalStep ==
    /\ (pc = "hgetall_prod" /\ Replied) => pc' \in {"full_evalsha", "partial_evalsha"}
    /\ pc' = "full_eval" => pc \in {"full_evalsha", "full_eval"}
    /\ pc' = "partial_eval" => pc \in {"partial_evalsha", "partial_eval"}
    /\ (pc = "full_evalsha" /\ Replied) =>
          /\ pc' = "full_eval" <=> "sha1(full)" \notin prod.scripts
          /\ pc' # "full_eval" => pc' = "full_execute" /\ hist'.fetch_done
    /\ (pc = "partial_evalsha" /\ Replied) =>
          /\ pc' = "partial_eval" <=> "sha1(partial)" \notin prod.scripts
          /\ pc' # "partial_eval" => pc' \in {"partial_execute", "report"} /\ hist'.fetch_done
    /\ (pc = "full_eval" /\ Replied) =>
          /\ pc' = "full_execute"
          /\ hist'.fetch_done
          /\ "sha1(full)" \in prod'.scripts
    /\ (pc = "partial_eval" /\ Replied) =>
          /\ pc' \in {"partial_execute", "report"}
          /\ hist'.fetch_done
          /\ "sha1(partial)" \in prod'.scripts

\* C15: each update first calls its script by hash; it sends the script body
\* exactly when the reply is NOSCRIPT, once, and that caches the script, so a
\* later call by hash runs it; whichever way the script ran, what the update
\* holds is the script's result on the data production held at that instant.
C15_HashThenBody == [](C15_ResultInv) /\ [][C15_EvalStep]_vars

\* A partial update that found its script cached by the run before it.
C15_Witness ==
    /\ pc = "report"
    /\ hist.prev_partial_quiet
    /\ ~hist.mutated
    /\ hist.decision = "IncrementalSync"
    /\ hist.fetch_done
    /\ "sha1(partial)" \in prod.scripts
    /\ "sha1(full)" \in prod.scripts

C16_FailedInv ==
    /\ outcome = "Failed" => pc \in {"finally", "Failed"}
    /\ pc = "Failed" => outcome = "Failed"
    /\ (outcome = "Failed" /\ hist.writes = 0) => Data(ro) = hist.ro_before
    /\ (outcome = "Failed" /\ ~hist.fetch_done) => Data(ro) = hist.ro_before
    /\ (outcome = "Failed" /\ hist.fetch_done) => Data(ro) \in {hist.ro_before, PostApply}

C16_FailStep ==
    \* the process leaves sync_redis: by the abort of step 0, by the return
    \* after the final fetch, or by an exception
    /\ (pc \notin {"finally"} \cup Terminal /\ pc' = "finally") =>
          \/ outcome' = "Failed"
          \/ pc = "verify_marker" /\ outcome' = "Aborted"
          \/ pc = "report" /\ outcome' = "Done"
    \* after an exception nothing is tried again and nothing is written
    /\ outcome = "Failed" =>
          /\ ro' = ro
          /\ \/ pc' \in {"finally", "Failed"} /\ outcome' = "Failed"
             \/ pc = "Failed" /\ FreshRun
    \* an exception itself writes nothing unless it follows the EXEC
    /\ (outcome # "Failed" /\ outcome' = "Failed" /\ hist'.writes = hist.writes) =>
          ro' = ro

\* C16: an exception out of any store call ends the run Failed with no call
\* repeated; when it comes before the transaction has executed the read-only
\* full data, change ids and schema are as they were when the run started,
\* and after any failure they are either that or the whole update.
C16_FailureIsFinal == [](C16_FailedInv) /\ [][C16_FailStep]_vars

C16_Witness ==
    /\ pc = "Failed"
    /\ hist.decision = "IncrementalSync"
    /\ hist.fetch_done
    /\ fetched = NoFetched
    /\ hist.writes = 0
    /\ hist.mutated
    /\ hist.ro_before # EmptyStore
    /\ Data(ro) = hist.ro_before
    /\ Data(prod) # Data(ro)

\* C17: whenever the partial update has been chosen, change_id_ro is an int
\* and not "-inf" (an empty read-only change id set gives lowest_change_id_ro
\* = None and with it the full update), so ARGV[1] of the partial script is
\* change_id_ro + 1.
C17_PartialCursorFinite ==
    /\ (Decided /\ self.change_id_ro = NegInf) =>
          self.lowest_change_id_ro = None /\ hist.decision = "FullSync"
    /\ pc \in {"partial_evalsha", "partial_eval", "partial_execute"} =>
          /\ self.change_id_ro # NegInf
          /\ self.change_id_ro = Cursor(hist.ro_before.change_id)
          /\ PartialArg(self.change_id_ro) = self.change_id_ro + 1

C17_Witness ==
    /\ pc = "partial_execute"
    /\ self.change_id_ro # NegInf
    /\ fetched.change_id[1] = self.change_id_ro + 1

\* C18: no step of the process changes production's full data, change ids,
\* schema or marker: they change only by production's own mutations, whatever
\* the outcome of the run and whether or not the scripts were cached.
C18_ProductionUntouched ==
    [][mutations' = mutations =>
          /\ prod'.full_data = prod.full_data
          /\ prod'.change_id = prod.change_id
          /\ prod'.schema = prod.schema
          /\ prod'.marker = prod.marker]_vars

C18_Witness ==
    /\ pc = "Done"
    /\ hist.writes = 1
    /\ ~hist.mutated
    /\ mutations = 0
    /\ "sha1(full)" \in prod.scripts
    /\ Data(ro) = Data(prod)

\* C19: a partial update leaves the read-only schema as it was, leaves every
\* entry the script did not select with its value and its change id, removes
\* no entry from the change id set, gives every selected entry the change id
\* fetched from production once the transaction has executed, and does not
\* lower the highest read-only change id.
C19_PartialFrame ==
    hist.decision = "IncrementalSync" =>
       /\ ro.schema = hist.ro_before.schema
       /\ \A m \in (DOMAIN hist.ro_before.full_data \cup DOMAIN ro.full_data) \ Delta :
             Get(ro.full_data, m) = Get(hist.ro_before.full_data, m)
       /\ \A m \in (DOMAIN hist.ro_before.change_id \cup DOMAIN ro.change_id) \ Delta :
             ZScore(ro.change_id, m) = ZScore(hist.ro_before.change_id, m)
       /\ DOMAIN hist.ro_before.change_id \subseteq DOMAIN ro.change_id
       /\ hist.writes > 0 =>
             \A m \in Delta : ZScore(ro.change_id, m) = hist.at_fetch.change_id[m]
       /\ Cursor(ro.change_id) >= Cursor(hist.ro_before.change_id)

C19_Witness ==
    /\ RunDone
    /\ hist.decision = "IncrementalSync"
    /\ hist.writes = 1
    /\ \E e \in Elements :
          /\ e \in Delta
          /\ e \in DOMAIN hist.ro_before.change_id
          /\ ro.change_id[e] > hist.ro_before.change_id[e]
    /\ \E e \in Elements \ Delta :
          /\ e \in DOMAIN ro.full_data
          /\ e \in DOMAIN ro.change_id

\* C20: whenever one of the schema fields db, config, migration is missing
\* from the schema read from the read-only redis or from the one read from
\* production (missing from both included), the full update is taken.
C20_MissingSchemaForcesFull ==
    ( /\ Decided
      /\ \E f \in SchemaFields :
            f \notin DOMAIN self.schema_ro \/ f \notin DOMAIN self.schema_production ) =>
       hist.decision = "FullSync"
====
